---- MODULE Spec2Model ----
(***************************************************************************)
(* Facebook long-lived token lifecycle of server/api/facebook-auth.ts:     *)
(* exchange, introspection, persistence (database or file backend), the    *)
(* expiry policy and getValidToken, run by concurrent callers on one Node  *)
(* event loop, together with the exchange-token and token-status endpoints *)
(* of server/api/facebook-token.ts and the provider requests of the        *)
(* posting and analytics modules.  Every await of the source is a step     *)
(* boundary; the code between two awaits runs atomically.                  *)
(*                                                                         *)
(* Time is counted in ticks, TicksPerSec ticks to the second (the source   *)
(* counts milliseconds, 1000 to the second); every millisecond literal of  *)
(* the source is the matching number of seconds times TicksPerSec.         *)
(***************************************************************************)
EXTENDS Integers, Sequences, FiniteSets, TLC

\* ---------------------------------------------------------------- bounds
\* Number of calls and requests of one run.
MaxCalls == 3
\* Number of calls that can be in flight at the same time.
MaxSlots == 2
\* Number of times the clock advances in one run.
MaxTicks == 1
\* Clock resolution, ticks per second.
TicksPerSec == 2
\* Seconds the clock advances by in one step (two hours).
TickStepSec == 7200
\* A short lifetime (one hour) the provider may answer in expires_in.
ShortExpiresIn == 3600
\* Largest number of whole days the policy probe draws.
ProbeDays == 9
\* Number of storeToken and loadStoredToken operations of one backend run.
MaxOps == 3

\* ---------------------------------------------------- program constants
\* facebook-auth.ts:55  (data.expires_in || 5184000)
DefaultExpiresIn == 5184000
\* facebook-auth.ts:136 and :175  Date.now() + 5184000000, in seconds
StoreDefaultSec == 5184000
\* facebook-auth.ts:232  daysUntilExpiry < 7
RefreshThresholdDays == 7
\* facebook-token.ts:68  expiryInfo.days_remaining < 7
StatusThresholdDays == 7
\* facebook-auth.ts:231  (1000 * 60 * 60 * 24), the seconds of it
SecPerDay == 60 * 60 * 24
TicksPerDay == TicksPerSec * SecPerDay

Calls == 1..MaxSlots
TickStep == TickStepSec * TicksPerSec

\* ------------------------------------------------------------- tokens
\* A token is <<kind, n>>: the value undefined, the FACEBOOK_ACCESS_TOKEN
\* environment token, or the token the provider issued in answer to the n-th call.
NoToken == <<"undefined", 0>>
EnvTok == <<"env", 0>>
LongTok(c) == <<"long", c>>
\* The short-lived token an operator posts to the exchange-token endpoint.
OperatorTok == <<"operator", 0>>

\* TokenStorage | null, as loadStoredToken returns it.
Null == [present |-> FALSE, access_token |-> NoToken, expires_at |-> 0]
TokenStorage(t, e) == [present |-> TRUE, access_token |-> t, expires_at |-> e]

\* What an async function called without await hands back: a pending
\* Promise, an object (truthy) on which access_token, expires_at and
\* days_remaining all read undefined.
Promise == [present |-> TRUE, access_token |-> NoToken, expires_at |-> 0]

\* A number | undefined, as a property of an answer.
Undefined == [defined |-> FALSE, value |-> 0]
Number(n) == [defined |-> TRUE, value |-> n]

\* The body an endpoint answers with (no answer yet: NoAnswer).
NoAnswer ==
    [has_token |-> FALSE, is_valid |-> FALSE, days_remaining |-> Undefined,
     needs_refresh |-> FALSE]

\* TokenInfo, as exchangeForLongLivedToken builds it (no TokenInfo: NoInfo).
NoInfo == [access_token |-> NoToken, expires_at |-> 0]
TokenInfo(t, e) == [access_token |-> t, expires_at |-> e]

VARIABLES
    now,            \* Date.now(), in ticks
    useDb,          \* USE_DATABASE
    envToken,       \* process.env.FACEBOOK_ACCESS_TOKEN (NoToken: unset)
    appConfigured,  \* FACEBOOK_APP_ID and FACEBOOK_APP_SECRET are both set
    rows,           \* the facebook_tokens table, in id order
    file,           \* .facebook-token.json
    call,           \* the calls and requests in flight or last completed
    started,        \* number of calls made so far
    probe           \* the input and result of the expiry policy probe

vars == <<now, useDb, envToken, appConfigured, rows, file, call, started, probe>>

\* ------------------------------------------------------- expiry policy
\* The quotient of a real division, as its whole part and remainder.
RealDiv(a, b) == [whole |-> a \div b, rem |-> a % b]

\* lines 230-233.  daysUntilExpiry < 7 for the real daysUntilExpiry =
\* whole + rem / TicksPerDay holds exactly when whole < 7.
NeedsRefreshInverted(tokenStorage, t) ==
    ~(RealDiv(tokenStorage.expires_at - t, TicksPerDay).whole < RefreshThresholdDays)
NeedsRefreshInclusive(tokenStorage, t) ==
    LET q == RealDiv(tokenStorage.expires_at - t, TicksPerDay)
    IN  q.whole < RefreshThresholdDays
        \/ (q.whole = RefreshThresholdDays /\ q.rem = 0)
needsRefresh(tokenStorage, t) ==
    LET daysUntilExpiry == RealDiv(tokenStorage.expires_at - t, TicksPerDay)
    IN  daysUntilExpiry.whole < RefreshThresholdDays

\* ------------------------------------------------------------ TokenStore
\* A timestamp column value: whole seconds and the fraction below.
ToTimestampSeconds(ms) == [sec |-> ms \div TicksPerSec, frac |-> 0]
ToTimestamp(ms) == [sec |-> ms \div TicksPerSec, frac |-> ms % TicksPerSec]
GetTime(ts) == ts.sec * TicksPerSec + ts.frac

\* storeToken line 136 / 175: tokenInfo.expires_at || Date.now() + 5184000000
StoreExpiresAt(tokenInfo, t) ==
    IF tokenInfo.expires_at # 0
    THEN tokenInfo.expires_at
    ELSE t + StoreDefaultSec * TicksPerSec

\* db.select().from(facebookTokens).orderBy(desc(id)).limit(1)
SelectLatest(table) ==
    IF Len(table) = 0 THEN <<>> ELSE <<table[Len(table)]>>

\* db.update(facebookTokens).set({...}).where(eq(id, rowId)); a value that
\* is undefined is left out of the SET list.
UpdateRow(table, rowId, tokenInfo, expiresAtMs) ==
    [i \in 1..Len(table) |->
        IF table[i].id = rowId
        THEN [table[i] EXCEPT
                !.accessToken = IF tokenInfo.access_token # NoToken
                                THEN tokenInfo.access_token ELSE @,
                !.expiresAt = ToTimestamp(expiresAtMs)]
        ELSE table[i]]

\* db.insert(facebookTokens).values({...}): id is serial
InsertRow(table, tokenInfo, expiresAtMs) ==
    Append(table, [id |-> Len(table) + 1,
                   accessToken |-> tokenInfo.access_token,
                   expiresAt |-> ToTimestamp(expiresAtMs)])

\* access_token text NOT NULL (schema.ts:90)
RowAccepted(tokenInfo) == tokenInfo.access_token # NoToken

\* JSON.stringify(storage) written to the file, JSON.parse of it read back
FileOf(tokenInfo, expiresAtMs) ==
    TokenStorage(tokenInfo.access_token, expiresAtMs)

\* loadStoredToken, when the backend read succeeds
LoadNull(db, table, f) == Null
loadStoredToken(db, table, f) ==
    IF db
    THEN LET tokens == SelectLatest(table)
         IN  IF Len(tokens) > 0
             THEN TokenStorage(tokens[1].accessToken, GetTime(tokens[1].expiresAt))
             ELSE Null
    ELSE f

\* ----------------------------------------------------------- ProviderClient
\* expires_in the provider may answer, in seconds; 0 stands for an answer
\* without expires_in (both are falsy at line 55).
ExpiresInChoices == {0, ShortExpiresIn}

\* The answers of the exchange endpoint that carry no error: a new token
\* with either lifetime, or (outside the provider's contract) no token.
ExchangeAnswers(n) ==
    {[access_token |-> LongTok(n), expires_in |-> e] : e \in ExpiresInChoices}
        \cup {[access_token |-> NoToken, expires_in |-> 0]}

\* line 55: Date.now() + (data.expires_in || 5184000) * 1000
ExpiresAtNoDefault(expiresIn, t) == t + expiresIn * TicksPerSec
ExpiresAtOf(expiresIn, t) ==
    t + (IF expiresIn # 0 THEN expiresIn ELSE DefaultExpiresIn) * TicksPerSec

\* ------------------------------------------------------------------ calls
IdleCall ==
    [pc |-> "idle", id |-> 0, path |-> "none", stored |-> Null, loadOk |-> TRUE,
     decidedAt |-> 0, tokenInfo |-> NoInfo, dateMs |-> 0, existing |-> 0,
     outcome |-> "none", result |-> NoToken, failure |-> "none",
     nIntrospect |-> 0, nExchange |-> 0, nWrites |-> 0,
     doneBefore |-> {}, afterSave |-> Null, overlapped |-> FALSE,
     verified |-> "none", exchangedAt |-> 0, expiresIn |-> 0, wrote |-> Null,
     seen |-> Null, answer |-> NoAnswer, exchangeSeq |-> 0]

\* The process starts with an empty store, at an instant that is not a
\* whole second.
Init ==
    /\ now = 1
    /\ useDb \in BOOLEAN
    /\ envToken \in {NoToken, EnvTok}
    /\ appConfigured \in BOOLEAN
    /\ rows = <<>>
    /\ file = Null
    /\ call = [c \in Calls |-> IdleCall]
    /\ started = 0
    /\ probe = [pc |-> "off", expires_at |-> 0, at |-> 0, result |-> FALSE]

\* ------------------------------------------------- getValidToken, by step
Return(r, tok) ==
    [r EXCEPT !.pc = "done", !.outcome = "returned", !.result = tok]

Throw(r, why) ==
    [r EXCEPT !.pc = "done", !.outcome = "threw", !.failure = why]

\* lines 249-253: catch (error) { return stored.access_token }
GvtCatchRethrow(r, why) == Throw(r, why)
GvtCatch(r, why) ==
    [Return(r, r.stored.access_token) EXCEPT !.failure = why]

\* An exception raised under getValidToken: caught at line 249 when it comes
\* from refreshLongLivedToken, passed to the caller when it comes from the
\* exchange of the environment token (line 266).
RaiseSwallowed(r, why) == GvtCatch(r, why)
RaiseRetrying(r, why) ==
    IF why = "network" /\ r.nExchange = 1
    THEN [r EXCEPT !.pc = "exchange", !.nExchange = @ + 1]
    ELSE IF r.path = "refresh" THEN GvtCatch(r, why) ELSE Throw(r, why)
Raise(r, why) ==
    IF r.path = "refresh" THEN GvtCatch(r, why) ELSE Throw(r, why)

\* lines 34-47 and 79-104: the configuration check, then the fetch is sent
SendIntrospect(r) ==
    IF ~appConfigured
    THEN Raise(r, "appConfig")
    ELSE [r EXCEPT !.pc = "verify", !.nIntrospect = @ + 1]

SendExchange(r) ==
    IF ~appConfigured
    THEN Raise(r, "appConfig")
    ELSE [r EXCEPT !.pc = "exchange", !.nExchange = @ + 1]

\* lines 242-268, from the loaded record to the first await or the return
AfterLoadStrict(r, t) ==
    IF ~r.loadOk
    THEN Throw([r EXCEPT !.path = "bootstrap"], "load")
    ELSE IF r.stored.present
         THEN IF needsRefresh(r.stored, t)
              THEN SendIntrospect([r EXCEPT !.path = "refresh"])
              ELSE Return([r EXCEPT !.path = "fresh"], r.stored.access_token)
         ELSE IF envToken = NoToken
              THEN Throw([r EXCEPT !.path = "bootstrap"], "noEnv")
              ELSE SendExchange([r EXCEPT !.path = "bootstrap"])
AfterLoadSticky(r, t) ==
    IF r.stored.present
    THEN IF needsRefresh(r.stored, t)
         THEN IF \E d \in Calls : call[d].pc = "done" /\ call[d].failure # "none"
              THEN Return([r EXCEPT !.path = "refresh"], r.stored.access_token)
              ELSE SendIntrospect([r EXCEPT !.path = "refresh"])
         ELSE Return([r EXCEPT !.path = "fresh"], r.stored.access_token)
    ELSE IF envToken = NoToken
         THEN Throw([r EXCEPT !.path = "bootstrap"], "noEnv")
         ELSE SendExchange([r EXCEPT !.path = "bootstrap"])
AfterLoad(r, t) ==
    IF r.stored.present
    THEN IF needsRefresh(r.stored, t)
         THEN SendIntrospect([r EXCEPT !.path = "refresh"])
         ELSE Return([r EXCEPT !.path = "fresh"], r.stored.access_token)
    ELSE IF envToken = NoToken
         THEN Throw([r EXCEPT !.path = "bootstrap"], "noEnv")
         ELSE SendExchange([r EXCEPT !.path = "bootstrap"])

\* A call begins and runs to its first await, where its record is r.  It
\* takes the first unused slot or, when there is none, the slot of a
\* completed call, whose record is then forgotten.
Begin(c, r) ==
    /\ started < MaxCalls
    /\ \/ /\ call[c].pc = "idle"
          /\ \A d \in Calls : d < c => call[d].pc # "idle"
       \/ /\ call[c].pc = "done"
          /\ \A d \in Calls : call[d].pc # "idle"
    /\ started' = started + 1
    /\ call' = [d \in Calls |->
                  IF d = c
                  THEN [r EXCEPT
                          !.id = started + 1,
                          !.doneBefore = {e \in Calls \ {c} : call[e].pc = "done"}]
                  ELSE [call[d] EXCEPT !.doneBefore = @ \ {c}]]

\* A caller invokes getValidToken (line 238).
GvtStart(c) ==
    /\ Begin(c, [IdleCall EXCEPT !.pc = "load"])
    /\ UNCHANGED <<now, useDb, envToken, appConfigured, rows, file, probe>>

\* facebook-token.ts lines 13-26: POST exchange-token.  Without a token in
\* the body the answer is 400; otherwise exchangeForLongLivedToken(token)
\* runs to its fetch.  The exchange then proceeds as ExchangeFail or
\* ExchangeOk and the store steps; its return is the success answer of
\* lines 27-33, its exception the 500 of lines 34-40.
ExchangeToken(c) ==
    /\ \E token \in {NoToken, OperatorTok} :
         LET r == [IdleCall EXCEPT !.path = "operator"]
         IN  Begin(c, IF token = NoToken
                      THEN Throw(r, "noBodyToken")
                      ELSE SendExchange(r))
    /\ UNCHANGED <<now, useDb, envToken, appConfigured, rows, file, probe>>

\* getTokenExpiryInfo() called without await (facebook-token.ts lines 25,
\* 59, 85): the pending Promise, on which days_remaining reads undefined.
PendingExpiryInfo == [present |-> TRUE, days_remaining |-> Undefined]

\* facebook-token.ts lines 48-58: GET token-status.  loadStoredToken() is
\* called without await, so stored is the pending Promise; on a falsy
\* stored the answer is 'No stored token found', otherwise
\* verifyToken(stored.access_token) sends its fetch.  The record the store
\* holds at this instant is noted in seen.
StatusRefresh(r) == SendExchange(r)
StatusVerify(r) == [r EXCEPT !.pc = "statusVerify", !.nIntrospect = @ + 1]

GetTokenStatus(c) ==
    /\ LET r == [IdleCall EXCEPT !.path = "status", !.stored = Promise,
                                 !.seen = loadStoredToken(useDb, rows, file),
                                 !.decidedAt = now]
       IN  Begin(c, IF ~r.stored.present
                    THEN Return(r, NoToken)
                    ELSE StatusVerify(r))
    /\ UNCHANGED <<now, useDb, envToken, appConfigured, rows, file, probe>>

\* facebook-token.ts lines 58-69: verifyToken answers, getTokenExpiryInfo()
\* is called without await and the status is sent.
GetTokenStatusResp(c) ==
    /\ call[c].pc = "statusVerify"
    /\ \E isValid \in BOOLEAN :
         LET expiryInfo == PendingExpiryInfo
             answer == [has_token |-> TRUE,
                        is_valid |-> isValid,
                        days_remaining |-> expiryInfo.days_remaining,
                        needs_refresh |->
                            /\ expiryInfo.present
                            /\ expiryInfo.days_remaining.defined
                            /\ expiryInfo.days_remaining.value < StatusThresholdDays]
         IN  call' = [call EXCEPT ![c] =
                        [Return(@, NoToken) EXCEPT
                            !.answer = answer,
                            !.verified = IF isValid THEN "valid" ELSE "invalid"]]
    /\ UNCHANGED <<now, useDb, envToken, appConfigured, rows, file, started, probe>>

\* analytics.ts lines 14-28 (and instagram.ts 19-21, 190, 234; upload.ts
\* 94-110): a collaborator sends its request to the provider with the
\* module constant FACEBOOK_ACCESS_TOKEN, read from the environment when
\* the module was loaded; without it the request is not sent.  The record
\* the store holds at this instant is noted in seen.
CollaboratorRequest(c) ==
    /\ LET FACEBOOK_ACCESS_TOKEN == envToken
           r == [IdleCall EXCEPT !.path = "collaborator", !.decidedAt = now,
                                 !.seen = loadStoredToken(useDb, rows, file)]
       IN  Begin(c, IF FACEBOOK_ACCESS_TOKEN = NoToken
                    THEN Throw(r, "notConfigured")
                    ELSE Return(r, FACEBOOK_ACCESS_TOKEN))
    /\ UNCHANGED <<now, useDb, envToken, appConfigured, rows, file, probe>>

\* facebook-token.ts lines 82-100: POST refresh-token, the one caller of
\* getValidToken.  The answer sent when the call r has completed: success
\* whenever getValidToken returned, the 500 of the catch when it threw.
refreshToken(r) ==
    IF r.outcome = "returned"
    THEN [success |-> TRUE, message |-> "Token refreshed successfully"]
    ELSE [success |-> FALSE, message |-> "Failed to refresh token"]

\* line 240 resumes: the backend read has completed (a failed read is
\* logged and yields null, lines 208-210 and 218-220), the policy decides.
GvtLoad(c) ==
    /\ call[c].pc = "load"
    /\ \E ok \in BOOLEAN :
         LET stored == IF ok THEN loadStoredToken(useDb, rows, file) ELSE Null
             r == [call[c] EXCEPT !.stored = stored, !.loadOk = ok,
                                  !.decidedAt = now]
         IN  call' = [call EXCEPT ![c] = AfterLoad(r, now)]
    /\ UNCHANGED <<now, useDb, envToken, appConfigured, rows, file, started, probe>>

\* refreshLongLivedToken lines 81-87, from verifyToken's result on:
\* if (!isValid) throw new Error('Current token is invalid or expired'),
\* else exchangeForLongLivedToken(currentToken).
AfterVerifyUnchecked(r, isValid) ==
    SendExchange([r EXCEPT !.verified = IF isValid THEN "valid" ELSE "invalid"])
AfterVerify(r, isValid) ==
    IF isValid
    THEN SendExchange([r EXCEPT !.verified = "valid"])
    ELSE Raise([r EXCEPT !.verified = "invalid"], "invalid")

\* verifyToken's fetch answers (lines 104-129): every error payload,
\* is_valid = false, reported expiry and transport failure yields false.
VerifyResp(c) ==
    /\ call[c].pc = "verify"
    /\ \E isValid \in BOOLEAN :
         call' = [call EXCEPT ![c] = AfterVerify(@, isValid)]
    /\ UNCHANGED <<now, useDb, envToken, appConfigured, rows, file, started, probe>>

\* The exchange fetch fails in transport or answers an error payload
\* (lines 47-52, 68-71).
ExchangeFailWiping(c) ==
    /\ call[c].pc = "exchange"
    /\ call' = [call EXCEPT ![c] = Raise(@, "network")]
    /\ rows' = <<>>
    /\ file' = Null
    /\ UNCHANGED <<now, useDb, envToken, appConfigured, started, probe>>
ExchangeFail(c) ==
    /\ call[c].pc = "exchange"
    /\ \E why \in {"network", "providerError"} :
         call' = [call EXCEPT ![c] = Raise(@, why)]
    /\ UNCHANGED <<now, useDb, envToken, appConfigured, rows, file, started, probe>>

\* What a completed write leaves in the writer's record.
Saved(r, written, view) ==
    [Return(r, r.tokenInfo.access_token) EXCEPT
        !.nWrites = @ + 1, !.wrote = written, !.afterSave = view]

\* The place of the latest answered exchange, among the calls on record, in
\* the order in which the exchanges were answered.
LastExchangeSeq ==
    CHOOSE m \in {call[d].exchangeSeq : d \in Calls} :
        \A d \in Calls : call[d].exchangeSeq <= m

\* The exchange fetch answers without an error payload (lines 54-65):
\* the record is built and storeToken runs to its first await (database,
\* where a failure shows at a later step) or to its end (file, where
\* writeFileSync may throw).
ExchangeOk(c) ==
    /\ call[c].pc = "exchange"
    /\ \E answer \in ExchangeAnswers(call[c].id), ok \in BOOLEAN :
         LET tokenInfo == TokenInfo(answer.access_token,
                                    ExpiresAtOf(answer.expires_in, now))
             dateMs == StoreExpiresAt(tokenInfo, now)
             r == [call[c] EXCEPT !.tokenInfo = tokenInfo, !.dateMs = dateMs,
                                  !.exchangedAt = now,
                                  !.exchangeSeq = LastExchangeSeq + 1,
                                  !.expiresIn = answer.expires_in]
         IN  IF useDb
             THEN /\ ok
                  /\ call' = [call EXCEPT ![c] = [r EXCEPT !.pc = "storeSelect"]]
                  /\ file' = file
             ELSE IF ok
                  THEN /\ file' = FileOf(tokenInfo, dateMs)
                       /\ call' = [call EXCEPT ![c] =
                                     Saved(r, file',
                                           loadStoredToken(useDb, rows, file'))]
                  ELSE /\ file' = file
                       /\ call' = [call EXCEPT ![c] = Raise(r, "store")]
    /\ UNCHANGED <<now, useDb, envToken, appConfigured, rows, started, probe>>

\* storeToken lines 141-146: the select of the latest row answers.
StoreSelect(c) ==
    /\ call[c].pc = "storeSelect"
    /\ \E ok \in BOOLEAN :
         LET existing == SelectLatest(rows)
         IN  call' = [call EXCEPT ![c] =
                        IF ok
                        THEN [@ EXCEPT !.pc = "storeWrite",
                                       !.existing = IF Len(existing) > 0
                                                    THEN existing[1].id ELSE 0]
                        ELSE Raise(@, "store")]
    /\ UNCHANGED <<now, useDb, envToken, appConfigured, rows, file, started, probe>>

\* storeToken lines 146-170: the update or the insert answers.  The
\* statement fails when the database does, and an insert also when the row
\* has no access_token.  A write that lands while another storeToken sits
\* between its select and its write is noted in that call's record.
StoreWrite(c) ==
    /\ call[c].pc = "storeWrite"
    /\ \E ok \in BOOLEAN :
         LET r == call[c]
             written == IF r.existing > 0
                        THEN UpdateRow(rows, r.existing, r.tokenInfo, r.dateMs)
                        ELSE InsertRow(rows, r.tokenInfo, r.dateMs)
             accepted == ok /\ (r.existing > 0 \/ RowAccepted(r.tokenInfo))
             row == written[IF r.existing > 0 THEN r.existing ELSE Len(written)]
         IN  IF accepted
             THEN /\ rows' = written
                  /\ call' = [d \in Calls |->
                       IF d = c
                       THEN Saved(r, TokenStorage(row.accessToken,
                                                  GetTime(row.expiresAt)),
                                  loadStoredToken(useDb, rows', file))
                       ELSE IF call[d].pc = "storeWrite"
                            THEN [call[d] EXCEPT !.overlapped = TRUE]
                            ELSE call[d]]
             ELSE /\ rows' = rows
                  /\ call' = [call EXCEPT ![c] = Raise(r, "store")]
    /\ UNCHANGED <<now, useDb, envToken, appConfigured, file, started, probe>>

\* Time passes.
Tick ==
    /\ now < MaxTicks * TickStep
    /\ now' = now + TickStep
    /\ UNCHANGED <<useDb, envToken, appConfigured, rows, file, call, started, probe>>

Next ==
    \/ \E c \in Calls : GvtStart(c)
    \/ \E c \in Calls : ExchangeToken(c)
    \/ \E c \in Calls : GetTokenStatus(c)
    \/ \E c \in Calls : GetTokenStatusResp(c)
    \/ \E c \in Calls : CollaboratorRequest(c)
    \/ \E c \in Calls : GvtLoad(c)
    \/ \E c \in Calls : VerifyResp(c)
    \/ \E c \in Calls : ExchangeFail(c)
    \/ \E c \in Calls : ExchangeOk(c)
    \/ \E c \in Calls : StoreSelect(c)
    \/ \E c \in Calls : StoreWrite(c)
    \/ Tick

Spec == Init /\ [][Next]_vars

\* The same system where every step that waits on the process itself or on
\* its store is eventually taken: the event loop resumes a call whose
\* backend read or write has completed.  Nothing obliges the provider to
\* answer a fetch (lines 47 and 104 pass no timeout and no abort signal),
\* so the steps that follow an answer carry no fairness.
Fairness ==
    \A c \in Calls :
        /\ WF_vars(GvtLoad(c))
        /\ WF_vars(StoreSelect(c))
        /\ WF_vars(StoreWrite(c))

SpecLive == Spec /\ Fairness

\* ------------------------------------------------------ expiry policy probe
\* needsRefresh applied to drawn inputs: every whole number of days from
\* one day overdue to ProbeDays days, exact and one tick either side.
ProbeRemaining ==
    {d * TicksPerDay + k : d \in (-1)..ProbeDays, k \in {-1, 0, 1}}
ProbeInstants == {0, 1, TickStep + 1}

InitPolicy ==
    /\ now = 1
    /\ useDb = FALSE
    /\ envToken = NoToken
    /\ appConfigured = FALSE
    /\ rows = <<>>
    /\ file = Null
    /\ call = [c \in Calls |-> IdleCall]
    /\ started = 0
    /\ \E at \in ProbeInstants, rem \in ProbeRemaining :
         probe = [pc |-> "input", expires_at |-> at + rem, at |-> at,
                  result |-> FALSE]

ProbeNeedsRefresh ==
    /\ probe.pc = "input"
    /\ probe' = [probe EXCEPT
                   !.pc = "done",
                   !.result = needsRefresh(TokenStorage(EnvTok, probe.expires_at),
                                           probe.at)]
    /\ UNCHANGED <<now, useDb, envToken, appConfigured, rows, file, call, started>>

NextPolicy == ProbeNeedsRefresh

SpecPolicy == InitPolicy /\ [][NextPolicy]_vars

\* ------------------------------------------------------- backends, side by side
\* storeToken (lines 135-187) run on each backend with nothing in between
\* its steps: what the store holds afterwards and whether the save threw.
storeTokenDb(table, tokenInfo, t) ==
    LET expiresAt == StoreExpiresAt(tokenInfo, t)
        existing == SelectLatest(table)
    IN  IF Len(existing) > 0
        THEN [ok |-> TRUE,
              rows |-> UpdateRow(table, existing[1].id, tokenInfo, expiresAt)]
        ELSE IF RowAccepted(tokenInfo)
             THEN [ok |-> TRUE, rows |-> InsertRow(table, tokenInfo, expiresAt)]
             ELSE [ok |-> FALSE, rows |-> table]

storeTokenFile(f, tokenInfo, t) ==
    [ok |-> TRUE, file |-> FileOf(tokenInfo, StoreExpiresAt(tokenInfo, t))]

\* The TokenInfo values storeToken is handed: a token or none, with an
\* expiry a tick, the short lifetime or the default lifetime away, or none.
BackendInputs(t) ==
    {TokenInfo(tok, e) :
        tok \in {NoToken, LongTok(1), LongTok(2)},
        e \in {0, t + 1, ExpiresAtOf(ShortExpiresIn, t), ExpiresAtOf(0, t)}}

\* The two backends start empty and are driven by the same operations; rows
\* is the database backend's store and file the file backend's.
InitBackends ==
    /\ now = 1
    /\ useDb = FALSE
    /\ envToken = NoToken
    /\ appConfigured = FALSE
    /\ rows = <<>>
    /\ file = Null
    /\ call = [c \in Calls |-> IdleCall]
    /\ started = 0
    /\ probe = [pc |-> "start", n |-> 0, dbOk |-> TRUE, fileOk |-> TRUE,
                dbLoad |-> Null, fileLoad |-> Null]

BackendsStore ==
    /\ probe.n < MaxOps
    /\ \E tokenInfo \in BackendInputs(now) :
         LET onDb == storeTokenDb(rows, tokenInfo, now)
             onFile == storeTokenFile(file, tokenInfo, now)
         IN  /\ rows' = onDb.rows
             /\ file' = onFile.file
             /\ probe' = [probe EXCEPT !.pc = "stored", !.n = @ + 1,
                                       !.dbOk = onDb.ok, !.fileOk = onFile.ok]
    /\ UNCHANGED <<now, useDb, envToken, appConfigured, call, started>>

BackendsLoad ==
    /\ probe.n < MaxOps
    /\ probe' = [probe EXCEPT !.pc = "loaded", !.n = @ + 1,
                              !.dbLoad = loadStoredToken(TRUE, rows, file),
                              !.fileLoad = loadStoredToken(FALSE, rows, file)]
    /\ UNCHANGED <<now, useDb, envToken, appConfigured, rows, file, call, started>>

NextBackends == BackendsStore \/ BackendsLoad \/ Tick

SpecBackends == InitBackends /\ [][NextBackends]_vars

\* ------------------------------------------------------------------ claims
Done(c) == call[c].pc = "done"
Loaded(c) == call[c].pc \notin {"idle", "load"}
IsGetValidToken(c) == call[c].path \in {"fresh", "refresh", "bootstrap"}
Days(n) == n * TicksPerDay

\* Two calls whose executions overlap in time.
Concurrent(c, d) ==
    /\ c # d
    /\ call[c].pc # "idle" /\ call[d].pc # "idle"
    /\ d \notin call[c].doneBefore
    /\ c \notin call[d].doneBefore

StoreEmpty == rows = <<>> /\ ~file.present

\* C1 (single-flight): concurrent getValidToken calls that all loaded a
\* record for which needsRefresh is true send at most one exchange request
\* between them.
C1_SingleFlight ==
    \A c, d \in Calls :
        (Concurrent(c, d) /\ call[c].path = "refresh" /\ call[d].path = "refresh")
            => call[c].nExchange + call[d].nExchange <= 1

\* C2 (shared result): concurrent getValidToken calls that observed the same
\* near-expiry record end with the same outcome and the same token.
C2_SharedResult ==
    \A c, d \in Calls :
        (/\ Concurrent(c, d) /\ Done(c) /\ Done(d)
         /\ call[c].path = "refresh" /\ call[d].path = "refresh"
         /\ call[c].stored = call[d].stored)
            => /\ call[c].outcome = call[d].outcome
               /\ call[c].result = call[d].result

\* C3 (freshness no-op): a call that loaded a record with more than 7 days
\* remaining has returned the stored token, and has sent no introspection
\* request, sent no exchange request and written nothing to the store.
C3_Precondition(c) ==
    /\ Loaded(c)
    /\ call[c].stored.present
    /\ call[c].stored.expires_at - call[c].decidedAt > Days(7)

C3_FreshNoOp ==
    \A c \in Calls :
        C3_Precondition(c)
            => /\ Done(c)
               /\ call[c].outcome = "returned"
               /\ call[c].result = call[c].stored.access_token
               /\ call[c].nIntrospect = 0
               /\ call[c].nExchange = 0
               /\ call[c].nWrites = 0

C3_Witness == \E c \in Calls : C3_Precondition(c) /\ Done(c)

\* C4 (hard expiry): a call that loaded a record whose expires_at was already
\* in the past, and whose refresh failed, raises an error and does not
\* return the expired token.
C4_HardExpiry ==
    \A c \in Calls :
        (/\ Done(c)
         /\ call[c].path = "refresh"
         /\ call[c].stored.expires_at < call[c].decidedAt
         /\ call[c].failure # "none")
            => call[c].outcome = "threw"

\* C5 (degraded fallback): a call that loaded a near-expiry record whose
\* expires_at was still in the future, and whose refresh failed by a network
\* error, a provider error or an invalid introspection, returns the stored
\* token without throwing and writes nothing to the store.
C5_Precondition(c) ==
    /\ Done(c)
    /\ call[c].path = "refresh"
    /\ call[c].stored.expires_at > call[c].decidedAt
    /\ call[c].failure \in {"network", "providerError", "invalid"}

C6_Precondition(c) ==
    /\ Done(c)
    /\ call[c].path = "refresh"
    /\ call[c].failure = "none"
    /\ call[c].nWrites = 1
    /\ call[c].tokenInfo.access_token # NoToken

C6_SuccessfulRefresh ==
    \A c \in Calls :
        C6_Precondition(c)
            => /\ call[c].outcome = "returned"
               /\ call[c].result = call[c].tokenInfo.access_token
               /\ call[c].afterSave =
                    TokenStorage(call[c].tokenInfo.access_token,
                                 call[c].tokenInfo.expires_at)

\* C7 (bootstrap idempotence): from an empty store with a bootstrap token
\* configured, when the only two calls made are sequential getValidToken
\* calls, the first has
\* stored the exchanged record and the second reads the store while that
\* record is fresh, the two calls have sent exactly one exchange request in
\* total and the second has returned the stored long-lived token with no
\* provider request.
C7_Precondition(c, d) ==
    /\ envToken = EnvTok
    /\ started = 2
    /\ call[c].id = 1 /\ call[d].id = 2
    /\ call[c].path = "bootstrap" /\ IsGetValidToken(d)
    /\ Done(c) /\ Done(d)
    /\ c \in call[d].doneBefore
    /\ call[c].nWrites = 1
    /\ call[d].loadOk
    /\ call[c].tokenInfo.expires_at - call[d].decidedAt >= Days(7)

C8_Precondition(c) ==
    /\ Done(c)
    /\ call[c].path = "bootstrap"
    /\ call[c].loadOk
    /\ \/ envToken = NoToken
       \/ call[c].failure \in {"appConfig", "network", "providerError"}

C8_BootstrapFailure ==
    \A c \in Calls :
        C8_Precondition(c)
            => /\ call[c].outcome = "threw"
               /\ call[c].result = NoToken
               /\ call[c].nWrites = 0
               /\ envToken = NoToken
                    => call[c].nExchange = 0 /\ call[c].nIntrospect = 0
               /\ started = 1 => StoreEmpty

C8_Witness ==
    \E c \in Calls :
        C8_Precondition(c) /\ envToken = EnvTok /\ call[c].failure = "providerError"

\* C9 (persistence round-trip): when storeToken has saved a record and no
\* other write came between its read of the existing row and its write, a
\* load right after returns the access_token and expires_at that were saved.
C9_Precondition(c) ==
    /\ Done(c)
    /\ call[c].nWrites = 1
    /\ ~call[c].overlapped
    /\ call[c].tokenInfo.access_token # NoToken

C10_ThresholdBoundary ==
    probe.pc = "done"
        => LET remaining == probe.expires_at - probe.at
           IN  /\ probe.result <=> remaining < Days(7)
               /\ remaining = Days(8) => ~probe.result
               /\ remaining = Days(7) => ~probe.result
               /\ remaining = Days(6) => probe.result

C10_Witness ==
    /\ probe.pc = "done"
    /\ probe.expires_at - probe.at = Days(7)
    /\ ~probe.result

\* C11 (expiry computation): every record persisted by an exchange has
\* expires_at equal to the instant of the exchange plus the provider's
\* expires_in seconds, or plus 60 days when the provider omits expires_in.
C11_Precondition(c) == call[c].nWrites = 1

C11_ExpiryComputation ==
    \A c \in Calls :
        C11_Precondition(c)
            => /\ call[c].wrote.present
               /\ call[c].wrote.expires_at =
                      call[c].exchangedAt
                          + (IF call[c].expiresIn # 0
                             THEN call[c].expiresIn * TicksPerSec
                             ELSE Days(60))

C11_Witness ==
    \E c, d \in Calls :
        /\ C11_Precondition(c) /\ call[c].expiresIn = 0 /\ call[c].exchangedAt > 1
        /\ C11_Precondition(d) /\ call[d].expiresIn # 0

\* C12 (non-empty token): every persisted record, on either backend, has a
\* non-empty access token, and an exchange answer that carries neither an
\* error nor an access_token results in no store write.
C12_NonEmptyToken ==
    /\ file.present => file.access_token # NoToken
    /\ \A i \in 1..Len(rows) : rows[i].accessToken # NoToken
    /\ \A c \in Calls :
           (call[c].exchangedAt > 0 /\ call[c].tokenInfo.access_token = NoToken)
               => call[c].nWrites = 0

\* C13 (pre-flight ordering): during a refresh an exchange request is sent
\* only after the introspection of the current token reported it valid; when
\* the introspection reports it invalid or fails, the refresh fails without
\* an exchange request.
C13_Precondition(c) == call[c].path = "refresh"

C13_PreflightOrdering ==
    \A c \in Calls :
        C13_Precondition(c)
            => /\ call[c].nExchange > 0
                   => (call[c].verified = "valid" /\ call[c].nIntrospect = 1)
               /\ call[c].verified = "invalid"
                   => /\ Done(c)
                      /\ call[c].failure = "invalid"
                      /\ call[c].nExchange = 0

C13_Witness ==
    \E c, d \in Calls :
        /\ C13_Precondition(c) /\ call[c].verified = "invalid"
        /\ C13_Precondition(d) /\ call[d].nExchange = 1

\* C14 (save failure after refresh): when during a refresh the exchange
\* succeeds and persisting the new record fails, getValidToken returns the
\* newly exchanged token, not the old stored one, and does not throw.
C14_Precondition(c) ==
    /\ Done(c)
    /\ call[c].path = "refresh"
    /\ call[c].failure = "store"
    /\ call[c].tokenInfo.access_token # NoToken

C14_SaveFailureAfterRefresh ==
    \A c \in Calls :
        C14_Precondition(c)
            => /\ call[c].outcome = "returned"
               /\ call[c].result = call[c].tokenInfo.access_token

\* C15 (failed exchange leaves the store untouched): when an exchange
\* request ends in a provider error payload or a transport failure, at
\* bootstrap, refresh or operator exchange, the call has written nothing
\* and the step in which the failure arrives leaves the persisted record as
\* it was.
ExchangeFailures == {"network", "providerError"}

C15_FailedExchangeFrame ==
    [][\A c \in Calls :
          call'[c].failure \in ExchangeFailures
              => /\ call'[c].nWrites = 0
                 /\ call'[c].wrote = Null
                 /\ call[c].pc = "exchange" => UNCHANGED <<rows, file>>]_vars

C15_Witness ==
    \E c, d \in Calls :
        /\ Done(c) /\ call[c].path = "operator"
        /\ call[c].failure \in ExchangeFailures
        /\ Done(d) /\ call[d].path = "refresh"
        /\ call[d].failure \in ExchangeFailures
        /\ ~StoreEmpty

\* C16 (EXPIRED is terminal for lazy access): a getValidToken call that
\* loads a stored record whose expires_at has passed, and to which the
\* provider reports the token invalid, sends no exchange request and leaves
\* the stored record alone; an operator exchange (exchangeToken) replaces
\* the record.
C16_Precondition(c) ==
    /\ call[c].path = "refresh"
    /\ call[c].stored.expires_at < call[c].decidedAt
    /\ call[c].verified = "invalid"

C17_Precondition(c) ==
    /\ Done(c)
    /\ call[c].path = "refresh"
    /\ call[c].failure \in {"invalid", "network", "providerError"}
    /\ envToken = EnvTok

C17_EnvironmentFallback ==
    \A c \in Calls :
        C17_Precondition(c)
            => ~(call[c].outcome = "returned"
                 /\ call[c].result = call[c].stored.access_token)

\* C18 (status is read-only): a getTokenStatus request sends no exchange
\* request and writes nothing, and none of its steps changes the persisted
\* record, whatever the store holds.
C18_StatusReadOnly ==
    [][\A c \in Calls :
          call'[c].path = "status"
              => /\ call'[c].nExchange = 0
                 /\ call'[c].nWrites = 0
                 /\ call'[c].pc # call[c].pc => UNCHANGED <<rows, file>>]_vars

C18_Witness ==
    \E c, d \in Calls :
        /\ Done(c) /\ call[c].path = "status" /\ ~call[c].seen.present
        /\ Done(d) /\ call[d].path = "status" /\ call[d].seen.present
        /\ call[d].seen.expires_at < call[d].decidedAt

\* C19 (status reports presence faithfully): getTokenStatus answers
\* has_token = false exactly when the store holds no record, and otherwise
\* has_token = true with days_remaining = floor((expires_at - now) / one day)
\* of the stored record.
C19_Precondition(c) == Done(c) /\ call[c].path = "status"

C19_StatusFaithful ==
    \A c \in Calls :
        C19_Precondition(c)
            => /\ call[c].answer.has_token <=> call[c].seen.present
               /\ call[c].seen.present
                   => call[c].answer.days_remaining =
                          Number((call[c].seen.expires_at - call[c].decidedAt)
                                     \div TicksPerDay)

\* C20 (collaborators use the managed token): a request that a posting or
\* analytics module sends to the provider while the store holds a record
\* that needs no refresh carries that record's token, the one getValidToken
\* returns at that time.
C20_Precondition(c) ==
    /\ Done(c)
    /\ call[c].path = "collaborator"
    /\ call[c].seen.present
    /\ ~needsRefresh(call[c].seen, call[c].decidedAt)

C20_ManagedToken ==
    \A c \in Calls :
        C20_Precondition(c)
            => /\ call[c].outcome = "returned"
               /\ call[c].result = call[c].seen.access_token

\* C21 (store ordering): once concurrent refreshes have completed, a token
\* obtained by an earlier exchange has not overwritten one obtained by a
\* later exchange: the record loadStoredToken returns is not that of the
\* earlier of two exchanges that both stored their record.
C21_Precondition(c, d) ==
    /\ Concurrent(c, d)
    /\ Done(c) /\ Done(d)
    /\ call[c].path = "refresh" /\ call[d].path = "refresh"
    /\ call[c].nWrites = 1 /\ call[d].nWrites = 1
    /\ call[c].tokenInfo.access_token # NoToken
    /\ call[d].tokenInfo.access_token # NoToken
    /\ call[c].exchangeSeq < call[d].exchangeSeq

C21_StoreOrdering ==
    \A c, d \in Calls :
        C21_Precondition(c, d)
            => loadStoredToken(useDb, rows, file).access_token
                   # call[c].tokenInfo.access_token

\* C22 (serialized mutation): no two storeToken executions are in progress
\* at the same time.
InStoreToken(c) == call[c].pc \in {"storeSelect", "storeWrite"}

C22_SerializedMutation ==
    \A c, d \in Calls : (InStoreToken(c) /\ InStoreToken(d)) => c = d

\* C28 (single current row): with the database backend the facebook_tokens
\* table holds at most one row.
C28_SingleRow == useDb => Len(rows) <= 1

\* C29 (operator exchange is not lost): when an operator exchange has stored
\* its token while a lazy refresh of the previous token was in flight, then
\* once both have finished, and no other call has run since, the store holds
\* the operator's token.
C29_Precondition(c, d) ==
    /\ Concurrent(c, d)
    /\ Done(c) /\ Done(d)
    /\ call[c].path = "refresh"
    /\ call[d].path = "operator"
    /\ call[d].nWrites = 1
    /\ call[d].tokenInfo.access_token # NoToken
    /\ call[c].stored.access_token # call[d].tokenInfo.access_token
    /\ \A e \in Calls \ {c, d} :
           \/ call[e].pc = "idle"
           \/ e \in call[c].doneBefore \cap call[d].doneBefore

C29_OperatorExchangeKept ==
    \A c, d \in Calls :
        C29_Precondition(c, d)
            => loadStoredToken(useDb, rows, file).access_token
                   = call[d].tokenInfo.access_token

\* C24 (no internal retry): one getValidToken call sends at most one
\* introspection request and at most one exchange request, whatever fails
\* during it.
C24_NoInternalRetry ==
    \A c \in Calls :
        IsGetValidToken(c)
            => /\ call[c].nIntrospect <= 1
               /\ call[c].nExchange <= 1

C24_Witness ==
    \E c, d \in Calls :
        /\ Done(c) /\ call[c].path = "refresh"
        /\ call[c].failure = "network"
        /\ call[c].nIntrospect = 1 /\ call[c].nExchange = 1
        /\ Done(d) /\ call[d].path = "bootstrap"
        /\ call[d].failure = "network" /\ call[d].nExchange = 1

\* C25 (retry on next access): after a refresh has failed, a later
\* getValidToken call that loads a near-expiry record not yet expired
\* attempts the refresh again, with its own introspection request; and when
\* that attempt is answered a token with the default lifetime and saves it
\* undisturbed, the stored record is fresh (7 days or more remain).
C25_Precondition(c) ==
    /\ IsGetValidToken(c)
    /\ call[c].stored.present
    /\ call[c].stored.expires_at > call[c].decidedAt
    /\ needsRefresh(call[c].stored, call[c].decidedAt)
    /\ \E d \in call[c].doneBefore :
           call[d].path = "refresh" /\ call[d].failure # "none"

C27_Precondition(c) ==
    /\ Loaded(c)
    /\ IsGetValidToken(c)
    /\ (~call[c].loadOk \/ ~call[c].stored.present)

C27_LoadNeverThrows ==
    \A c \in Calls :
        C27_Precondition(c)
            => /\ ~call[c].stored.present
               /\ call[c].path = "bootstrap"
               /\ call[c].failure # "load"
               /\ envToken = NoToken
                   => /\ Done(c) /\ call[c].outcome = "threw"
                      /\ call[c].failure = "noEnv"
                      /\ call[c].nExchange = 0
               /\ (envToken = EnvTok /\ appConfigured) => call[c].nExchange = 1

C27_Witness ==
    \E c \in Calls :
        /\ C27_Precondition(c)
        /\ ~call[c].loadOk
        /\ ~StoreEmpty
        /\ Done(c) /\ call[c].nExchange = 1 /\ call[c].outcome = "returned"

\* C30 (manual refresh is truthful): a refreshToken request answers success
\* with 'Token refreshed successfully' only if during it an exchange request
\* succeeded and the stored record was replaced.
C30_Precondition(c) ==
    /\ Done(c)
    /\ IsGetValidToken(c)
    /\ refreshToken(call[c]).success
    /\ refreshToken(call[c]).message = "Token refreshed successfully"

C30_ManualRefreshTruthful ==
    \A c \in Calls :
        C30_Precondition(c)
            => /\ call[c].nExchange = 1
               /\ call[c].exchangedAt > 0
               /\ call[c].nWrites = 1

\* C23 (bounded waiting): every getValidToken call eventually completes,
\* also when the provider never answers its introspection or exchange
\* request.
GvtInFlight(c) ==
    \/ call[c].pc = "load"
    \/ /\ IsGetValidToken(c)
       /\ call[c].pc \in {"verify", "exchange", "storeSelect", "storeWrite"}

C23_BoundedWaiting ==
    \A c \in Calls : GvtInFlight(c) ~> Done(c)

\* C26 (backend equivalence): driven by the same sequence of storeToken and
\* loadStoredToken operations, the database backend and the file backend
\* fail or succeed on the same saves and return the same access_token and
\* expires_at from each load.
C26_BackendEquivalence ==
    /\ probe.dbOk = probe.fileOk
    /\ probe.dbLoad = probe.fileLoad

====
